---- MODULE Spec2Model ----
(***************************************************************************)
(* A model of pyflux's TSM parent class (src/pyflux/tsm.py): the fit       *)
(* dispatcher and the estimators it routes to, the output categorizer and  *)
(* shift_dates.                                                            *)
(*                                                                         *)
(* Vectors are sequences of integers.  An absent value (Python None) of a  *)
(* vector-valued slot is the empty sequence; an absent method tag is the   *)
(* string "None".                                                          *)
(***************************************************************************)
EXTENDS Integers, Sequences, FiniteSets, TLC

VARIABLES
    model_type,          \* self.model_type
    supported_methods,   \* self.supported_methods, declared by the model
    default_method,      \* self.default_method, declared by the model
    hessian_ok,          \* per objective: does inverting its Hessian succeed
    latent_variables,    \* self.latent_variables, the registry
    last,                \* the last call of fit / _mcmc_fit and how it ended
    index,               \* self.index
    index_kind,          \* the kind of self.index (with self.is_pandas)
    max_lag,             \* self.max_lag
    shifted,             \* what the last shift_dates call returned
    output               \* what the last _categorize_model_output call returned

vars == <<model_type, supported_methods, default_method, hessian_ok,
          latent_variables, last, index, index_kind, max_lag, shifted, output>>

fit_vars == <<model_type, supported_methods, default_method, hessian_ok,
              latent_variables, last>>
date_vars == <<index, index_kind, max_lag, shifted>>

----------------------------------------------------------------------------
(* Bounds of the model *)

NSims == 2        \* samples per latent variable in a chain (SpecMCMC)
MaxRaw == 3       \* raw (unconstrained) sample values are 0..MaxRaw
MaxLen == 4       \* longest index
MaxT == 5         \* index entries are 0..MaxT
MaxH == 3         \* forecast horizons are 0..MaxH
MaxUnsupported == 1   \* methods a model declaration leaves unsupported

----------------------------------------------------------------------------
(* Values *)

None == <<>>
NoTag == "None"

z_no == 2

Vec(c) == [k \in 1..z_no |-> c]

Abs(x) == IF x < 0 THEN -x ELSE x

Sqrt(n) == CHOOSE r \in 0..n : r * r <= n /\ (r + 1) * (r + 1) > n

RECURSIVE Exp(_)
Exp(x) == IF x <= 0 THEN 1 ELSE 2 * Exp(x - 1)

RECURSIVE Log(_)
Log(y) == IF y <= 1 THEN 0 ELSE 1 + Log(y \div 2)

RECURSIVE SumSeq(_)
SumSeq(s) == IF s = <<>> THEN 0 ELSE Head(s) + SumSeq(Tail(s))

----------------------------------------------------------------------------
(* The latent-variable registry, as the contracts of the design describe it *)

Prior(k) == IF k % 2 = 1 THEN "Normal" ELSE "InverseGamma"

transform(k, x) == IF Prior(k) = "Normal" THEN x ELSE Exp(x)

itransform(k, y) == IF Prior(k) = "Normal" THEN y ELSE Log(y)

NewRegistry ==
    [start |-> Vec(0), values |-> None, method |-> NoTag, ses |-> None,
     chain |-> None, q |-> Vec(<<0, 0>>), estimated |-> FALSE]

get_z_starting_values(lv) == lv.start

get_z_values(lv) == lv.values

get_z_values_transformed(lv) ==
    [k \in DOMAIN lv.values |-> transform(k, lv.values[k])]

set_z_values(lv, values, method, std, chain) ==
    [lv EXCEPT !.values = values, !.method = method, !.ses = std,
               !.chain = chain, !.estimated = TRUE]

----------------------------------------------------------------------------
(* _categorize_model_output *)

(* mutant: EGARCHM is missing from the first branch *)
ScoreTypesShort == {"GAS", "GASX", "GASLLEV", "GARCH", "EGARCH"}

ScoreTypes == {"GAS", "GASX", "GASLLEV", "GARCH", "EGARCH", "EGARCHM"}
GPTypes == {"GPNARX", "GPR", "GP"}
StateSpaceTypes == {"LLEV", "LLT", "DynReg"}
OtherTypes == {"ARIMA", "VAR"}

ModelTypes ==
    {"GAS", "GASX", "GASLLEV", "GARCH", "EGARCH", "EGARCHM", "GASLLT", "LMEGARCH",
     "SEGARCH", "SEGARCHM", "EGARCHMReg", "GASReg", "LLEV", "LLT", "DynReg",
     "GPNARX", "GPR", "GP", "ARIMA", "VAR"}

Absent == [from |-> "None", z |-> None]

Populated(src, z) == [from |-> src, z |-> z]

NoOutput ==
    [theta |-> Absent, Y |-> Absent, scores |-> Absent, states |-> Absent,
     states_var |-> Absent, X_names |-> Absent]

categorize_model_output(mt, z) ==
    IF mt \in ScoreTypes
    THEN [theta |-> Populated("_model", z), Y |-> Populated("_model", z),
          scores |-> Populated("_model", z), states |-> Absent,
          states_var |-> Absent, X_names |-> Absent]
    ELSE IF mt \in {"GASLLT"}
    THEN [theta |-> Populated("_model", z), Y |-> Populated("_model", z),
          scores |-> Populated("_model", z), states |-> Populated("_model", z),
          states_var |-> Absent, X_names |-> Absent]
    ELSE IF mt \in {"LMEGARCH"}
    THEN [theta |-> Populated("_model", z), Y |-> Populated("_model", z),
          scores |-> Populated("_model", z), states |-> Absent,
          states_var |-> Absent, X_names |-> Absent]
    ELSE IF mt \in {"SEGARCH", "SEGARCHM"}
    THEN [theta |-> Populated("_model", z), Y |-> Populated("_model", z),
          scores |-> Populated("_model", z), states |-> Absent,
          states_var |-> Absent, X_names |-> Absent]
    ELSE IF mt \in {"EGARCHMReg"}
    THEN [theta |-> Populated("_model", z), Y |-> Populated("_model", z),
          scores |-> Populated("_model", z), states |-> Absent,
          states_var |-> Absent, X_names |-> Absent]
    ELSE IF mt \in {"GASReg"}
    THEN [theta |-> Populated("_model", z), Y |-> Populated("_model", z),
          scores |-> Populated("_model", z), states |-> Populated("_model", z),
          states_var |-> Absent, X_names |-> Populated("X_names", None)]
    ELSE IF mt \in StateSpaceTypes
    THEN [theta |-> Populated("smoothed_state", z), Y |-> Populated("data", None),
          scores |-> Absent, states |-> Populated("smoothed_state", z),
          states_var |-> Populated("smoothed_state", z), X_names |-> Absent]
    ELSE IF mt \in GPTypes
    THEN [theta |-> Populated("expected_values", z), Y |-> Populated("data", None),
          scores |-> Absent, states |-> Absent,
          states_var |-> Absent, X_names |-> Absent]
    ELSE [theta |-> Populated("_model", z), Y |-> Populated("_model", z),
          scores |-> Absent, states |-> Absent,
          states_var |-> Absent, X_names |-> Absent]

----------------------------------------------------------------------------
(* What the numerical libraries return.  The minimizer is deterministic in  *)
(* the objective and the starting point; whether the Hessian at the optimum *)
(* can be inverted is a property of the model's objective (hessian_ok).     *)

ObjTypes == {"neg_loglik", "neg_logposterior"}

minimize(obj_type, phi) ==
    [k \in DOMAIN phi |-> phi[k] + (IF obj_type = "neg_loglik" THEN 1 ELSE 2)]

InvHessian(obj_type, px) ==
    [k \in DOMAIN px |->
        IF k % 2 = 1 THEN (px[k] + 2) * (px[k] + 2)
                     ELSE 0 - (px[k] + 2) * (px[k] + 2)]

StdErrors(ihessian) == [k \in DOMAIN ihessian |-> Sqrt(Abs(ihessian[k]))]

RECURSIVE Insert(_, _)
Insert(x, s) ==
    IF s = <<>> THEN <<x>>
    ELSE IF x <= Head(s) THEN <<x>> \o s
    ELSE <<Head(s)>> \o Insert(x, Tail(s))

RECURSIVE Sorted(_)
Sorted(s) == IF s = <<>> THEN <<>> ELSE Insert(Head(s), Sorted(Tail(s)))

Mean(s) == SumSeq(s) \div Len(s)

Median(s) ==
    LET t == Sorted(s)
        n == Len(s)
    IN  IF n % 2 = 1 THEN t[(n + 1) \div 2]
        ELSE (t[n \div 2] + t[n \div 2 + 1]) \div 2

Upper95(s) == Sorted(s)[Len(s)]

Lower95(s) == Sorted(s)[1]

(* MetropolisHastings(...).sample(): the chain the random walk produced and *)
(* its statistics, all on the raw scale                                     *)
sample(raw_chain) ==
    [chain |-> raw_chain,
     mean_est |-> [k \in DOMAIN raw_chain |-> Mean(raw_chain[k])],
     median_est |-> [k \in DOMAIN raw_chain |-> Median(raw_chain[k])],
     upper_95_est |-> [k \in DOMAIN raw_chain |-> Upper95(raw_chain[k])],
     lower_95_est |-> [k \in DOMAIN raw_chain |-> Lower95(raw_chain[k])]]

(* BBVI(...).run(): the converged approximating distributions *)
bbvi_run(q_z, q_ses) ==
    [q |-> [k \in DOMAIN q_z |-> <<q_z[k], q_ses[k]>>], q_z |-> q_z, q_ses |-> q_ses]

----------------------------------------------------------------------------
(* Results *)

NoResult ==
    [kind |-> "None", method |-> NoTag, ihessian |-> None, ses |-> None,
     signal |-> Absent, data |-> Absent, scores |-> Absent, states |-> Absent,
     states_var |-> Absent, X_names |-> Absent, z |-> NewRegistry,
     samples |-> None, mean_est |-> None, median_est |-> None,
     upper_95_est |-> None, lower_95_est |-> None]

Results(kind, method, lv, out) ==
    [NoResult EXCEPT !.kind = kind, !.method = method, !.z = lv,
                     !.signal = out.theta, !.data = out.Y, !.scores = out.scores,
                     !.states = out.states, !.states_var = out.states_var,
                     !.X_names = out.X_names]

MLEResults(method, lv, out, ihessian) ==
    [Results("MLEResults", method, lv, out) EXCEPT !.ihessian = ihessian]

LaplaceResults(lv, out, ihessian) ==
    [Results("LaplaceResults", "Laplace", lv, out) EXCEPT !.ihessian = ihessian]

BBVIResults(lv, out, q_ses) ==
    [Results("BBVIResults", "BBVI", lv, out) EXCEPT !.ses = q_ses]

MCMCResults(lv, out, s) ==
    [Results("MCMCResults", "Metropolis Hastings", lv, out) EXCEPT
        !.samples = s.chain, !.mean_est = s.mean_est, !.median_est = s.median_est,
        !.upper_95_est = s.upper_95_est, !.lower_95_est = s.lower_95_est]

----------------------------------------------------------------------------
(* One call in progress: the registry, the batch assignments and the        *)
(* estimators entered so far (nested calls included), what the sampler      *)
(* drew, and how the call ended.                                            *)

NoSample ==
    [chain |-> None, mean_est |-> None, median_est |-> None,
     upper_95_est |-> None, lower_95_est |-> None]

Begin(lv) ==
    [lv |-> lv, writes |-> <<>>, estimators |-> <<>>, inner |-> <<>>,
     sampled |-> NoSample, outcome |-> "running", result |-> NoResult]

Enter(cs, estimator) == [cs EXCEPT !.estimators = Append(@, estimator)]

Write(cs, values, method, std, chain) ==
    [cs EXCEPT !.lv = set_z_values(@, values, method, std, chain),
               !.writes = Append(@, [values |-> values, method |-> method,
                                     ses |-> std, chain |-> chain])]

Raise(cs, error) == [cs EXCEPT !.outcome = error, !.result = NoResult]

Return(cs, result) == [cs EXCEPT !.outcome = "ok", !.result = result]

(* y = self.fit(method='PML', printer=False) has returned into an estimator *)
Returned(y) == [y EXCEPT !.inner = Append(@, y.result)]

(* keyword arguments and the draws of the random number generator *)
Kwargs(start, raw_chain, q_z, q_ses) ==
    [start |-> start, raw_chain |-> raw_chain, q_z |-> q_z, q_ses |-> q_ses]

WithoutStart(kw) == [kw EXCEPT !.start = None]

----------------------------------------------------------------------------
(* The estimators.  M is the model: its declarations and its objective.     *)

TheModel ==
    [model_type |-> model_type, supported_methods |-> supported_methods,
     default_method |-> default_method, hessian_ok |-> hessian_ok]

(* the method names the dispatcher's branches recognise *)
Methods == {"MLE", "PML", "M-H", "Laplace", "BBVI", "OLS"}

RECURSIVE fit(_, _, _, _)

(* mutant: validates against the names the dispatcher knows *)
passes_validation_known(M, method0) ==
    method0 = NoTag \/ method0 \in Methods

(* lines 362-365 of fit: the absent method is not validated *)
passes_validation(M, method0) ==
    method0 = NoTag \/ method0 \in M.supported_methods

(* mutant: an absent method always means MLE *)
selected_method_mle(M, method0) ==
    IF method0 = NoTag THEN "MLE" ELSE method0

selected_method(M, method0) ==
    IF method0 = NoTag THEN M.default_method ELSE method0

(* mutant: a Hessian that cannot be inverted aborts the fit *)
optimize_fit_raises(cs0, M, obj_type, kw) ==
    LET method == IF obj_type = "neg_loglik" THEN "MLE" ELSE "PML"
        cs  == Enter(cs0, method)
        phi == IF kw.start # None THEN kw.start
               ELSE get_z_starting_values(cs.lv)
        px  == minimize(obj_type, phi)
        out == categorize_model_output(M.model_type, px)
    IN  IF M.hessian_ok[obj_type]
        THEN LET ihessian == InvHessian(obj_type, px)
                 cs1 == Write(cs, px, method, StdErrors(ihessian), None)
             IN  Return(cs1, MLEResults(method, cs1.lv, out, ihessian))
        ELSE Raise(cs, "LinAlgError")

(* _optimize_fit: the try block succeeds iff the Hessian can be inverted *)
optimize_fit(cs0, M, obj_type, kw) ==
    LET method == IF obj_type = "neg_loglik" THEN "MLE" ELSE "PML"
        cs  == Enter(cs0, method)
        phi == IF kw.start # None THEN kw.start
               ELSE get_z_starting_values(cs.lv)
        px  == minimize(obj_type, phi)
        out == categorize_model_output(M.model_type, px)
    IN  IF M.hessian_ok[obj_type]
        THEN LET ihessian == InvHessian(obj_type, px)
                 cs1 == Write(cs, px, method, StdErrors(ihessian), None)
             IN  Return(cs1, MLEResults(method, cs1.lv, out, ihessian))
        ELSE LET cs1 == Write(cs, px, method, None, None)
             IN  Return(cs1, MLEResults(method, cs1.lv, out, None))

(* _bbvi_fit *)
bbvi_fit(cs0, M, kw) ==
    LET cs  == Enter(cs0, "BBVI")
        r   == bbvi_run(kw.q_z, kw.q_ses)
        cs1 == Write(cs, r.q_z, "BBVI", [k \in DOMAIN r.q_ses |-> Exp(r.q_ses[k])],
                     None)
        cs2 == [cs1 EXCEPT !.lv.q = r.q]
        out == categorize_model_output(M.model_type, r.q_z)
    IN  Return(cs2, BBVIResults(cs2.lv, out, r.q_ses))

(* mutant: no check of the mode fit's inverse Hessian *)
laplace_fit_unchecked(cs0, M, kw) ==
    LET cs == Enter(cs0, "Laplace")
        y0 == fit(cs, M, "PML", WithoutStart(kw))
        y  == Returned(y0)
    IN  IF y0.outcome # "ok" THEN y0
        ELSE LET out == categorize_model_output(M.model_type, get_z_values(y.lv))
             IN  Return(y, LaplaceResults(y.lv, out, y.result.ihessian))

(* mutant: the signal is computed from the transformed values *)
laplace_fit_transformed(cs0, M, kw) ==
    LET cs == Enter(cs0, "Laplace")
        y0 == fit(cs, M, "PML", WithoutStart(kw))
        y  == Returned(y0)
    IN  IF y0.outcome # "ok" THEN y0
        ELSE IF y.result.ihessian = None THEN Raise(y, "MissingHessian")
        ELSE LET out == categorize_model_output(M.model_type,
                                                get_z_values_transformed(y.lv))
             IN  Return(y, LaplaceResults(y.lv, out, y.result.ihessian))

(* _laplace_fit *)
laplace_fit(cs0, M, kw) ==
    LET cs == Enter(cs0, "Laplace")
        y0 == fit(cs, M, "PML", WithoutStart(kw))
        y  == Returned(y0)
    IN  IF y0.outcome # "ok" THEN y0
        ELSE IF y.result.ihessian = None THEN Raise(y, "MissingHessian")
        ELSE LET out == categorize_model_output(M.model_type, get_z_values(y.lv))
             IN  Return(y, LaplaceResults(y.lv, out, y.result.ihessian))

(* mutant: the mean is left on the raw scale *)
transform_estimates_raw_mean(s) ==
    [chain |-> [k \in DOMAIN s.chain |->
                   [i \in DOMAIN s.chain[k] |-> transform(k, s.chain[k][i])]],
     mean_est |-> s.mean_est,
     median_est |-> [k \in DOMAIN s.chain |-> transform(k, s.median_est[k])],
     upper_95_est |-> [k \in DOMAIN s.chain |-> transform(k, s.upper_95_est[k])],
     lower_95_est |-> [k \in DOMAIN s.chain |-> transform(k, s.lower_95_est[k])]]

(* lines 230-235 of _mcmc_fit: every stored value through the prior's transform *)
transform_estimates(s) ==
    [chain |-> [k \in DOMAIN s.chain |->
                   [i \in DOMAIN s.chain[k] |-> transform(k, s.chain[k][i])]],
     mean_est |-> [k \in DOMAIN s.chain |-> transform(k, s.mean_est[k])],
     median_est |-> [k \in DOMAIN s.chain |-> transform(k, s.median_est[k])],
     upper_95_est |-> [k \in DOMAIN s.chain |-> transform(k, s.upper_95_est[k])],
     lower_95_est |-> [k \in DOMAIN s.chain |-> transform(k, s.lower_95_est[k])]]

(* _mcmc_fit *)
mcmc_fit(cs0, M, method, kw) ==
    LET cs == Enter(cs0, "M-H")
        y0 == IF M.model_type \notin GPTypes
              THEN fit(cs, M, "PML", WithoutStart(kw))
              ELSE cs
        y  == IF M.model_type \notin GPTypes THEN Returned(y0) ELSE cs
    IN  IF M.model_type \notin GPTypes /\ y0.outcome # "ok" THEN y0
        ELSE IF method # "M-H" THEN Raise(y, "UnsupportedMethod")
        ELSE LET raw == sample(kw.raw_chain)
                 s   == transform_estimates(raw)
                 cs1 == Write([y EXCEPT !.sampled = raw], s.mean_est, "M-H", None,
                              s.chain)
                 out == categorize_model_output(M.model_type, s.mean_est)
             IN  Return(cs1, MCMCResults(cs1.lv, out, s))

(* _ols_fit, for one dependent variable (ylen = 1) *)
ols_fit(cs0, M, kw) ==
    LET cs    == Enter(cs0, "OLS")
        res_z == [k \in 1..(z_no - 1) |-> 3]
        cov   == 4
        z     == Append(res_z, itransform(z_no, cov))
        ihessian == [k \in 1..(z_no - 1) |-> 9]
        res_ses  == StdErrors(ihessian)
        ses   == res_ses \o [k \in 1..(Len(z) - Len(res_z)) |-> 1]
        cs1   == Write(cs, z, "OLS", ses, None)
        out   == categorize_model_output(M.model_type, z)
    IN  Return(cs1, MLEResults("OLS", cs1.lv, out, ihessian))

(* fit: method = NoTag is the absent method *)
fit(cs, M, method0, kw) ==
    IF ~ passes_validation(M, method0)
    THEN Raise(cs, "InvalidMethod")
    ELSE LET method == selected_method(M, method0)
         IN  IF method = "MLE" THEN optimize_fit(cs, M, "neg_loglik", kw)
             ELSE IF method = "PML" THEN optimize_fit(cs, M, "neg_logposterior", kw)
             ELSE IF method = "M-H" THEN mcmc_fit(cs, M, method, kw)
             ELSE IF method = "Laplace" THEN laplace_fit(cs, M, kw)
             ELSE IF method = "BBVI" THEN bbvi_fit(cs, M, kw)
             ELSE IF method = "OLS" THEN ols_fit(cs, M, kw)
             ELSE Return(cs, NoResult)

----------------------------------------------------------------------------
(* The dispatcher's specification: any model declaration, any sequence of  *)
(* calls.                                                                   *)

(* a model leaves at most MaxUnsupported of the methods out *)
SupportedSets ==
    {S \in SUBSET Methods : Cardinality(Methods \ S) <= MaxUnsupported}

MethodArgs == Methods \cup {NoTag, "SGD"}

FitTypes == {"ARIMA", "GP"}

Starts == {None, Vec(1)}

DispatchChains == {[k \in 1..z_no |-> <<k>>]}

DispatchQ == {Vec(1)}

Samplers == {"M-H", "HMC"}

NoCall ==
    [call |-> "None", method |-> NoTag, start |-> None, writes |-> <<>>,
     estimators |-> <<>>, inner |-> <<>>, sampled |-> NoSample,
     outcome |-> "None", result |-> NoResult]

Ended(call, method, kw, r) ==
    [call |-> call, method |-> method, start |-> kw.start, writes |-> r.writes,
     estimators |-> r.estimators, inner |-> r.inner, sampled |-> r.sampled,
     outcome |-> r.outcome, result |-> r.result]

IdleRest ==
    /\ index = <<>> /\ index_kind = "list" /\ max_lag = 0
    /\ shifted = [outcome |-> "None", h |-> 0, index |-> None]
    /\ output = NoOutput

Init ==
    /\ model_type \in FitTypes
    /\ supported_methods \in SupportedSets
    /\ default_method \in Methods
    /\ hessian_ok \in [ObjTypes -> BOOLEAN]
    /\ latent_variables = NewRegistry
    /\ last = NoCall
    /\ IdleRest

Fit ==
    \E method \in MethodArgs, start \in Starts, c \in DispatchChains, q \in DispatchQ :
        LET kw == Kwargs(start, c, q, q)
            r  == fit(Begin(latent_variables), TheModel, method, kw)
        IN  /\ latent_variables' = r.lv
            /\ last' = Ended("fit", method, kw, r)
            /\ UNCHANGED <<model_type, supported_methods, default_method, hessian_ok,
                           date_vars, output>>

McmcFit ==
    \E method \in Samplers, c \in DispatchChains :
        LET kw == Kwargs(None, c, Vec(0), Vec(0))
            r  == mcmc_fit(Begin(latent_variables), TheModel, method, kw)
        IN  /\ latent_variables' = r.lv
            /\ last' = Ended("_mcmc_fit", method, kw, r)
            /\ UNCHANGED <<model_type, supported_methods, default_method, hessian_ok,
                           date_vars, output>>

Next == Fit \/ McmcFit

Spec == Init /\ [][Next]_vars

----------------------------------------------------------------------------
(* Claims about the dispatcher (under Spec) *)

Route == IF last.estimators = <<>> THEN NoTag ELSE Head(last.estimators)

ObjOf(method) == IF method = "MLE" THEN "neg_loglik" ELSE "neg_logposterior"

KindOf(method) ==
    IF method \in {"MLE", "PML", "OLS"} THEN "MLEResults"
    ELSE IF method = "Laplace" THEN "LaplaceResults"
    ELSE IF method = "M-H" THEN "MCMCResults"
    ELSE "BBVIResults"

(* C1: a fit call whose method is present and not in supported_methods     *)
(* fails with InvalidMethod, returns no result, enters no estimator, makes *)
(* no set_z_values, and leaves the registry as it was before the call.     *)
C1_InvalidMethodLeavesRegistry ==
    [][(/\ last'.call = "fit"
        /\ last'.method # NoTag
        /\ last'.method \notin supported_methods)
       => (/\ last'.outcome = "InvalidMethod"
           /\ last'.result = NoResult
           /\ last'.estimators = <<>>
           /\ last'.writes = <<>>
           /\ latent_variables' = latent_variables)]_vars

C1_Witness ==
    /\ last.call = "fit"
    /\ last.method # NoTag
    /\ last.method \notin supported_methods
    /\ last.outcome = "InvalidMethod"
    /\ latent_variables.estimated

(* C2: a call that ends in MissingHessian or UnsupportedMethod leaves the  *)
(* registry as it was before the call.                                     *)
C2_FatalFailureSkipsUpdate ==
    [][last'.outcome \in {"MissingHessian", "UnsupportedMethod"}
       => latent_variables' = latent_variables]_vars

(* C3: a successful top-level fit call makes exactly one batch assignment  *)
(* to the registry, those of nested fits counted.                          *)
C3_ExactlyOneAssignment ==
    (last.call = "fit" /\ last.outcome = "ok") => Len(last.writes) = 1

C5_DegradedFitSucceeds ==
    (/\ last.call = "fit"
     /\ Route \in {"MLE", "PML"}
     /\ ~ hessian_ok[ObjOf(Route)])
    => LET phi == IF last.start # None THEN last.start
                  ELSE get_z_starting_values(latent_variables)
           px  == minimize(ObjOf(Route), phi)
       IN  /\ last.outcome = "ok"
           /\ last.result.kind = "MLEResults"
           /\ last.result.method = Route
           /\ last.result.ihessian = None
           /\ last.writes = <<[values |-> px, method |-> Route, ses |-> None,
                               chain |-> None]>>

C5_Witness ==
    /\ last.call = "fit" /\ Route = "MLE" /\ ~ hessian_ok["neg_loglik"]
    /\ last.outcome = "ok" /\ last.result.ihessian = None
    /\ Len(last.writes) = 1 /\ last.writes[1].ses = None

C7_LaplaceSignalIsPMLSignal ==
    [][(last'.call = "fit" /\ last'.estimators # <<>>
        /\ Head(last'.estimators) = "Laplace" /\ last'.outcome = "ok")
       => LET d == fit(Begin(latent_variables), TheModel, "PML",
                       Kwargs(None, None, None, None))
          IN  /\ last'.estimators = <<"Laplace", "PML">>
              /\ d.outcome = "ok"
              /\ d.result.kind = "MLEResults"
              /\ last'.result.signal = d.result.signal
              /\ last'.result.signal.from # "None"]_vars

C7_Witness ==
    /\ last.call = "fit" /\ Route = "Laplace" /\ last.outcome = "ok"
    /\ hessian_ok["neg_logposterior"]
    /\ last.result.signal.from # "None"

----------------------------------------------------------------------------
(* The sampler's specification: the first fit(method='M-H') of a model,    *)
(* with every chain the random walk can produce within the bounds.         *)

Chains == [1..z_no -> [1..NSims -> 0..MaxRaw]]

InitMCMC ==
    /\ model_type \in FitTypes
    /\ supported_methods = Methods
    /\ default_method = "M-H"
    /\ hessian_ok \in [ObjTypes -> BOOLEAN]
    /\ latent_variables = NewRegistry
    /\ last = NoCall
    /\ IdleRest

FitMetropolis ==
    /\ last = NoCall
    /\ \E c \in Chains :
        LET kw == Kwargs(None, c, Vec(0), Vec(0))
            r  == fit(Begin(latent_variables), TheModel, "M-H", kw)
        IN  /\ latent_variables' = r.lv
            /\ last' = Ended("fit", "M-H", kw, r)
            /\ UNCHANGED <<model_type, supported_methods, default_method, hessian_ok,
                           date_vars, output>>

NextMCMC == FitMetropolis

SpecMCMC == InitMCMC /\ [][NextMCMC]_vars

(* C8: the statistics are those of the raw chain, and every stored value   *)
(* (each sample, mean, median, upper and lower bound of every latent        *)
(* variable k) is its raw value passed once through variable k's transform. *)
C8_TransformedOnce ==
    (last.call = "fit" /\ Route = "M-H" /\ last.outcome = "ok")
    => LET raw == last.sampled.chain
           res == last.result
       IN  /\ DOMAIN raw = 1..z_no
           /\ \A k \in 1..z_no :
                /\ last.sampled.mean_est[k] = Mean(raw[k])
                /\ res.mean_est[k] = transform(k, Mean(raw[k]))
                /\ res.median_est[k] = transform(k, Median(raw[k]))
                /\ res.upper_95_est[k] = transform(k, Upper95(raw[k]))
                /\ res.lower_95_est[k] = transform(k, Lower95(raw[k]))
                /\ DOMAIN res.samples[k] = DOMAIN raw[k]
                /\ \A i \in DOMAIN raw[k] :
                     res.samples[k][i] = transform(k, raw[k][i])

(* the mean of the transformed chain differs from the transformed raw mean *)
C8_Witness ==
    /\ last.call = "fit" /\ Route = "M-H" /\ last.outcome = "ok"
    /\ \E k \in 1..z_no :
         /\ last.result.mean_est[k] # Mean(last.sampled.chain[k])
         /\ last.result.mean_est[k] # Mean(last.result.samples[k])
         /\ last.result.mean_est[k] = transform(k, Mean(last.sampled.chain[k]))

----------------------------------------------------------------------------
(* shift_dates.  A calendar index holds time stamps counted in units of    *)
(* 1/UnitsPerDay of a day.                                                  *)

UnitsPerDay == 2

IndexKinds == {"DatetimeIndex", "Int64Index", "Index", "list"}

(* date_index[self.max_lag:len(date_index)] *)
Truncated(idx, lag) == SubSeq(idx, lag + 1, Len(idx))

(* date_index[len(date_index)-1] and [len(date_index)-2]; -1 wraps around *)
LastOf(t) == t[Len(t)]

BeforeLastOf(t) == IF Len(t) >= 2 THEN t[Len(t) - 1] ELSE t[Len(t)]

(* (a - b).days *)
Days(delta) == delta \div UnitsPerDay

RECURSIVE ShiftLoop(_, _, _)
ShiftLoop(kind, t, h) ==
    IF h = 0 THEN t
    ELSE IF kind = "DatetimeIndex"
    THEN LET offset == Days(LastOf(t) - BeforeLastOf(t)) * UnitsPerDay
         IN  ShiftLoop(kind, [i \in DOMAIN t |-> t[i] + offset], h - 1)
    ELSE IF kind = "Int64Index"
    THEN LET new_value == LastOf(t) + (LastOf(t) - BeforeLastOf(t))
         IN  ShiftLoop(kind, Append(t, new_value), h - 1)
    ELSE ShiftLoop(kind, Append(t, LastOf(t) + 1), h - 1)

(* mutant: the index is not cut at max_lag *)
shift_dates_uncut(idx, kind, lag, h) ==
    LET t == idx
    IN  IF kind = "Index" THEN [outcome |-> "ok", h |-> h, index |-> t]
        ELSE IF h > 0 /\ t = <<>>
        THEN [outcome |-> "IndexError", h |-> h, index |-> None]
        ELSE [outcome |-> "ok", h |-> h, index |-> ShiftLoop(kind, t, h)]

shift_dates(idx, kind, lag, h) ==
    LET t == Truncated(idx, lag)
    IN  IF kind = "Index" THEN [outcome |-> "ok", h |-> h, index |-> t]
        ELSE IF h > 0 /\ t = <<>>
        THEN [outcome |-> "IndexError", h |-> h, index |-> None]
        ELSE [outcome |-> "ok", h |-> h, index |-> ShiftLoop(kind, t, h)]

NotShifted == [outcome |-> "None", h |-> 0, index |-> None]

Increasing(s) == \A i \in 1..(Len(s) - 1) : s[i] < s[i + 1]

Indexes ==
    UNION {{s \in [1..n -> 0..MaxT] : Increasing(s)} : n \in 0..MaxLen}

IdleFit ==
    /\ supported_methods = Methods
    /\ default_method = "MLE"
    /\ hessian_ok = [o \in ObjTypes |-> TRUE]
    /\ latent_variables = NewRegistry
    /\ last = NoCall

InitDates ==
    /\ index \in Indexes
    /\ index_kind \in IndexKinds
    /\ max_lag \in 0..MaxLen
    /\ shifted = NotShifted
    /\ model_type = "ARIMA"
    /\ IdleFit
    /\ output = NoOutput

ShiftDates ==
    \E h \in 0..MaxH :
        /\ shifted' = shift_dates(index, index_kind, max_lag, h)
        /\ UNCHANGED <<fit_vars, index, index_kind, max_lag, output>>

NextDates == ShiftDates

SpecDates == InitDates /\ [][NextDates]_vars

(* C9, as the spec states it: for a calendar, integer or generic index with *)
(* at least two entries left after the cut at max_lag, shift_dates(h)       *)
(* returns an index of length h.                                            *)
C9_LengthIsH ==
    (/\ shifted.outcome = "ok"
     /\ shifted.h >= 1
     /\ index_kind \in {"DatetimeIndex", "Int64Index", "list"}
     /\ Len(Truncated(index, max_lag)) >= 2)
    => Len(shifted.index) = shifted.h

(* what shift_dates returned, against the index cut at max_lag *)
C9_Shape ==
    LET t == Truncated(index, max_lag)
        n == Len(t)
        r == shifted.index
        h == shifted.h
    IN  (shifted.outcome = "ok" /\ n >= 2)
        => /\ index_kind \in {"Int64Index", "list"}
                => /\ Len(r) = n + h
                   /\ SubSeq(r, 1, n) = t
                   /\ \A i \in (n + 1)..(n + h) :
                        r[i] - r[i - 1] =
                            IF index_kind = "list" THEN 1 ELSE t[n] - t[n - 1]
           /\ index_kind = "DatetimeIndex"
                => /\ Len(r) = n
                   /\ \A i \in 1..n :
                        r[i] = t[i] + h * ((t[n] - t[n - 1]) \div UnitsPerDay)
                                        * UnitsPerDay
           /\ index_kind = "Index" => r = t

(* C9, amended: for an index with at least two entries left after the cut  *)
(* at max_lag, shift_dates(h) returns the cut index followed by h further   *)
(* entries (length L - max_lag + h), each one last-observed step (integer   *)
(* index) or 1 (generic index) after the one before; for a calendar index   *)
(* it returns the cut index, of unchanged length, with every entry moved    *)
(* forward by h times the whole-day count of the last observed spacing.     *)
(* The model's own index is not modified.                                   *)
C9_ShiftDatesExtends ==
    [][C9_Shape' /\ index' = index]_vars

C9_Witness ==
    /\ shifted.outcome = "ok" /\ shifted.h >= 2
    /\ index_kind = "Int64Index"
    /\ max_lag >= 1
    /\ Len(Truncated(index, max_lag)) >= 2
    /\ Len(shifted.index) = Len(index) - max_lag + shifted.h
    /\ Len(shifted.index) # shifted.h

----------------------------------------------------------------------------
(* The output categorizer's specification: every model family, any vector  *)

ZVecs == [1..z_no -> 0..MaxRaw]

InitCat ==
    /\ model_type \in ModelTypes
    /\ output = NoOutput
    /\ IdleFit
    /\ index = <<>> /\ index_kind = "list" /\ max_lag = 0 /\ shifted = NotShifted

Categorize ==
    \E z \in ZVecs :
        /\ output' = categorize_model_output(model_type, z)
        /\ UNCHANGED <<fit_vars, date_vars>>

NextCat == Categorize

SpecCat == InitCat /\ [][NextCat]_vars

(* the families as the claim groups them *)
ScoreDrivenFamilies ==
    {"GAS", "GASX", "GASLLEV", "GASLLT", "GASReg", "GARCH", "EGARCH", "EGARCHM",
     "LMEGARCH", "SEGARCH", "SEGARCHM", "EGARCHMReg"}

StateSpaceFamilies == {"LLEV", "LLT", "DynReg"}

RegressionFamilies == {"GASReg", "EGARCHMReg", "DynReg"}

MatchedFamilies ==
    ScoreDrivenFamilies \cup StateSpaceFamilies \cup {"GPNARX", "GPR", "GP"}

Called == output # NoOutput

(* C10, as the claim states it: signal always populated; scores only for   *)
(* score-driven/GARCH-type families, state path and state variance only    *)
(* for state-space families, covariate names only for regression-style     *)
(* families; an unmatched family has only signal and data populated.       *)
C10_FamiliesAsClaimed ==
    Called
    => /\ output.theta # Absent
       /\ output.scores # Absent => model_type \in ScoreDrivenFamilies
       /\ output.states # Absent => model_type \in StateSpaceFamilies
       /\ output.states_var # Absent => model_type \in StateSpaceFamilies
       /\ output.X_names # Absent => model_type \in RegressionFamilies
       /\ model_type \notin MatchedFamilies
            => /\ output.Y # Absent
               /\ output.scores = Absent /\ output.states = Absent
               /\ output.states_var = Absent /\ output.X_names = Absent

(* C10, amended: as claimed, except that the state path is populated also  *)
(* for the score-driven families GASLLT and GASReg (without a variance).   *)
C10_CategorizedOutput ==
    Called
    => /\ output.theta # Absent
       /\ output.Y # Absent
       /\ output.scores # Absent <=> model_type \in ScoreDrivenFamilies
       /\ output.states # Absent
            <=> model_type \in StateSpaceFamilies \cup {"GASLLT", "GASReg"}
       /\ output.states_var # Absent <=> model_type \in StateSpaceFamilies
       /\ output.X_names # Absent => model_type \in RegressionFamilies
       /\ model_type \notin MatchedFamilies
            => /\ output.scores = Absent /\ output.states = Absent
               /\ output.states_var = Absent /\ output.X_names = Absent

C10_Witness ==
    /\ Called
    /\ model_type = "GASLLT"
    /\ output.states # Absent /\ output.states_var = Absent
    /\ output.scores # Absent

----------------------------------------------------------------------------
(* The vector handed to _categorize_model_output (under Spec).  Every      *)
(* branch of the categorizer records the vector it was given in the signal *)
(* (theta) it returns.                                                      *)

(* the unconstrained vector the routed estimator produced in the last call *)
RawVector ==
    IF Route \in {"MLE", "PML"}
    THEN minimize(ObjOf(Route), IF last.start # None THEN last.start
                                ELSE get_z_starting_values(latent_variables))
    ELSE IF Route = "Laplace"
    THEN minimize("neg_logposterior", get_z_starting_values(latent_variables))
    ELSE IF Route = "M-H" THEN last.sampled.mean_est
    ELSE IF Route = "BBVI"
    THEN [k \in 1..z_no |-> last.result.z.q[k][1]]
    ELSE last.writes[Len(last.writes)].values

(* C11: in every successful fit call, whichever estimator it is routed to, *)
(* the vector handed to the output categorizer is the raw (unconstrained)  *)
(* vector of the estimator: no latent variable's prior transform has been  *)
(* applied to any of its entries.                                           *)
C11_CategorizerGetsRawVector ==
    (last.call = "fit" /\ last.outcome = "ok" /\ Route \in Methods)
    => last.result.signal.z = RawVector

====
